---- MODULE Spec2Model ----
(***************************************************************************)
(* A model of grammarlib/core.py: the symbol algebra (Symbol,              *)
(* ExpansionAlternatives), the reachability traversal of Grammar, the      *)
(* FIRST and FOLLOW fixpoint solvers, and the memoizing parametric_nt      *)
(* factory.                                                                *)
(*                                                                         *)
(* Python objects are modelled as follows.  A Terminal is the record       *)
(* [text |-> s] (a frozen dataclass, compared by value).  A NonTerminal is *)
(* a heap object: its identity is a string id, a reference to it inside an *)
(* expansion is [ref |-> id], and its fields live in the heap variables    *)
(* label and alternatives.  An ExpansionAlternatives is the record         *)
(* [expansions |-> <<...>>] holding a sequence (Python list) of expansions,*)
(* each a sequence (Python tuple) of symbols.  Python's None is the record *)
(* [none |-> TRUE]; an optional label is a sequence of at most one string. *)
(***************************************************************************)
EXTENDS Integers, Sequences, FiniteSets, Bags, TLC

\* ---------------------------------------------------------------- bounds
MaxAlternatives == 2
MaxRuns == 2
MaxArg == 3
MaxCalls == 3

\* ---------------------------------------------------- symbols and algebra
None == [none |-> TRUE]

Terminal(text) == [text |-> text]

t(text) == Terminal(text)

NonTerminalRef(id) == [ref |-> id]

ExpansionAlternatives(expansions) == [expansions |-> expansions]

IsSymbol(v) == "expansions" \notin DOMAIN v

IsTerminal(v) == "text" \in DOMAIN v

IsNonTerminal(v) == "ref" \in DOMAIN v

\* [ (se, oe) for se in left for oe in right ]: the outer loop is over left
CrossProduct(left, right) ==
    LET m == Len(left)
        n == Len(right)
    IN  [k \in 1..(m * n) |->
            left[((k - 1) \div n) + 1] \o right[((k - 1) % n) + 1]]

\* variant: only the first expansion of the right operand is used
SymbolMulFirstOnly(self, other) ==
    IF IsSymbol(other)
    THEN ExpansionAlternatives(<< <<self, other>> >>)
    ELSE ExpansionAlternatives(
            [i \in 1..(IF Len(other.expansions) > 0 THEN 1 ELSE 0) |->
                <<self>> \o other.expansions[i]])

SymbolMul(self, other) ==
    IF IsSymbol(other)
    THEN ExpansionAlternatives(<< <<self, other>> >>)
    ELSE ExpansionAlternatives(
            [i \in 1..Len(other.expansions) |-> <<self>> \o other.expansions[i]])

SymbolOr(self, other) ==
    IF IsSymbol(other)
    THEN ExpansionAlternatives(<< <<self>>, <<other>> >>)
    ELSE ExpansionAlternatives(<< <<self>> >> \o other.expansions)

AlternativesMul(self, other) ==
    IF IsSymbol(other)
    THEN ExpansionAlternatives(
            [i \in 1..Len(self.expansions) |-> Append(self.expansions[i], other)])
    ELSE ExpansionAlternatives(CrossProduct(self.expansions, other.expansions))

AlternativesOr(self, other) ==
    IF IsSymbol(other)
    THEN ExpansionAlternatives(Append(self.expansions, <<other>>))
    ELSE ExpansionAlternatives(self.expansions \o other.expansions)

\* Python dispatches a * b and a | b on the class of the left operand
Mul(a, b) == IF IsSymbol(a) THEN SymbolMul(a, b) ELSE AlternativesMul(a, b)

Or(a, b) == IF IsSymbol(a) THEN SymbolOr(a, b) ELSE AlternativesOr(a, b)

never == ExpansionAlternatives(<<>>)

epsilon == ExpansionAlternatives(<< <<>> >>)

Range(s) == {s[i] : i \in DOMAIN s}

\* ------------------------------------------------------------- variables
VARIABLES
    X, Y, Z,          \* operands of the algebra scenario
    lhs, rhs,         \* the two sides of a distributivity instance
    alg_pc,           \* "operands", "right" or "left"
    label,            \* heap: NonTerminal id -> optional label
    alternatives,     \* heap: NonTerminal id -> ExpansionAlternatives
    starting_non_terminal,  \* Grammar.starting_non_terminal
    non_terminals,    \* Grammar.non_terminals
    stack,            \* the active calls of _add_non_terminal
    scans,            \* history: how often each node's alternatives were scanned
    pc,               \* position of the calling thread
    order,            \* iteration order of the set non_terminals in the last call
    prev_order,       \* history: the order of the call before the last one
    caller,           \* who called first_sets: "user" or "follow"
    first_result,     \* the local result of first_sets
    first_sets,       \* the local first_sets of follow_sets
    follow_result,    \* the local result of follow_sets
    changed,          \* the local changed of the running solver
    pos,              \* position of the nested for loops within a pass
    pass_start,       \* history: the solver's result when the pass began
    first_returns,    \* history: the values returned by first_sets
    follow_returns,   \* history: the values returned by follow_sets
    runs,             \* number of solver calls made by the user
    cache,            \* the cache of functools.cache around pnt: argument -> node
    pnt_stack,        \* the arguments of the running builder calls, innermost last
    builder_runs,     \* history: how often the builder ran for each argument
    returned,         \* history: the nodes each argument's calls returned
    pnt_calls,        \* history: the arguments of the user's calls of pnt
    allocated         \* number of NonTerminal objects created by pnt

algVars == <<X, Y, Z, lhs, rhs, alg_pc>>

heapVars == <<label, alternatives>>

grammarVars == <<starting_non_terminal, non_terminals, stack, scans>>

solverVars == <<order, prev_order, caller, first_result, first_sets, follow_result,
                changed, pos, pass_start, first_returns, follow_returns, runs>>

pntVars == <<cache, pnt_stack, builder_runs, returned, pnt_calls, allocated>>

vars == <<X, Y, Z, lhs, rhs, alg_pc, label, alternatives,
          starting_non_terminal, non_terminals, stack, scans, pc,
          order, prev_order, caller, first_result, first_sets, follow_result,
          changed, pos, pass_start, first_returns, follow_returns, runs,
          cache, pnt_stack, builder_runs, returned, pnt_calls, allocated>>

\* ------------------------------------------------- the algebra scenario
AlgSymbols == {t("a"), NonTerminalRef("N")}

\* the expansions the operands are built from: empty, one term, two terms
AlgExpansions == {<<>>, <<t("a")>>, <<NonTerminalRef("N"), t("a")>>}

RECURSIVE SeqsUpTo(_, _)
SeqsUpTo(S, n) ==
    IF n = 0 THEN {<<>>}
    ELSE LET shorter == SeqsUpTo(S, n - 1)
         IN  shorter \cup {Append(s, e) : s \in shorter, e \in S}

AlgOperands ==
    AlgSymbols \cup
    {ExpansionAlternatives(es) : es \in SeqsUpTo(AlgExpansions, MaxAlternatives)}

AlgIdle ==
    /\ X = None /\ Y = None /\ Z = None
    /\ lhs = never /\ rhs = never
    /\ alg_pc = "idle"

AlgInit ==
    /\ X \in AlgOperands
    /\ Y \in AlgOperands
    /\ Z \in AlgOperands
    /\ lhs = never
    /\ rhs = never
    /\ alg_pc = "operands"

RightDistribute ==
    /\ alg_pc = "operands"
    /\ lhs' = Mul(Or(X, Y), Z)
    /\ rhs' = Or(Mul(X, Z), Mul(Y, Z))
    /\ alg_pc' = "right"
    /\ UNCHANGED <<X, Y, Z, pntVars, heapVars, grammarVars, pc, solverVars>>

LeftDistribute ==
    /\ alg_pc = "operands"
    /\ lhs' = Mul(Z, Or(X, Y))
    /\ rhs' = Or(Mul(Z, X), Mul(Z, Y))
    /\ alg_pc' = "left"
    /\ UNCHANGED <<X, Y, Z, pntVars, heapVars, grammarVars, pc, solverVars>>

\* ------------------------------------------------- construction helpers
\* nt(label, expansions) and nt(expansions): the alternatives of the new node
nt(expansions) == Mul(epsilon, expansions)

\* NonTerminal.add_expansion
add_expansion(self_alternatives, alternative) == Or(self_alternatives, alternative)

\* ------------------------------------------------------ the grammars used
ta == t("a")

tb == t("b")

\* _main: a = nt(ta); b = nt("B", tb); d = nt((a | b) * (a | b));
\* c = nt(a | a * b | d * tb); label_nts names the unlabelled nodes
ScenarioGrammar ==
    LET a == NonTerminalRef("a")
        b == NonTerminalRef("b")
        d == NonTerminalRef("d")
    IN  [label |-> [n \in {"a", "b", "c", "d"} |-> IF n = "b" THEN <<"B">> ELSE <<n>>],
         alternatives |->
            [n \in {"a", "b", "c", "d"} |->
                CASE n = "a" -> nt(ta)
                  [] n = "b" -> nt(tb)
                  [] n = "d" -> nt(Mul(Or(a, b), Or(a, b)))
                  [] n = "c" -> nt(Or(Or(a, Mul(a, b)), Mul(d, tb)))]]

\* E = nt("E", epsilon() | t("x")); F = nt("F", E * t("y"))
NullableGrammar ==
    LET E == NonTerminalRef("E")
    IN  [label |-> [n \in {"E", "F"} |-> <<n>>],
         alternatives |->
            [n \in {"E", "F"} |->
                CASE n = "E" -> nt(Or(epsilon, t("x")))
                  [] n = "F" -> nt(Mul(E, t("y")))]]

\* S = nt("S", A * F * t("z")) on top of E and F, with A = nt("A", ta)
SequenceGrammar ==
    LET E == NonTerminalRef("E")
        F == NonTerminalRef("F")
        A == NonTerminalRef("A")
    IN  [label |-> [n \in {"A", "E", "F", "S"} |-> <<n>>],
         alternatives |->
            [n \in {"A", "E", "F", "S"} |->
                CASE n = "A" -> nt(ta)
                  [] n = "E" -> nt(Or(epsilon, t("x")))
                  [] n = "F" -> nt(Mul(E, t("y")))
                  [] n = "S" -> nt(Mul(Mul(A, F), t("z")))]]

\* L = nt("L", epsilon()); L.add_expansion(L * ta): a node that refers to itself
LeftRecursiveGrammar ==
    LET L == NonTerminalRef("L")
    IN  [label |-> [n \in {"L"} |-> <<n>>],
         alternatives |->
            [n \in {"L"} |-> add_expansion(nt(epsilon), Mul(L, ta))]]

\* X = nt("X", never()); Y = nt("Y", X * tb | epsilon()); U = nt(X);
\* X.add_expansion(Y * ta | tb): mutual recursion; nothing refers to U
MutualGrammar ==
    LET Xn == NonTerminalRef("X")
        Yn == NonTerminalRef("Y")
    IN  [label |-> [n \in {"U", "X", "Y"} |-> IF n = "U" THEN <<>> ELSE <<n>>],
         alternatives |->
            [n \in {"U", "X", "Y"} |->
                CASE n = "X" -> add_expansion(nt(never), Or(Mul(Yn, ta), tb))
                  [] n = "Y" -> nt(Or(Mul(Xn, tb), epsilon))
                  [] n = "U" -> nt(Xn)]]

\* V = nt("N", never()); S = nt("N", V * ta | tb | V): a node without
\* expansions, and two distinct nodes with the same label
NeverGrammar ==
    LET V == NonTerminalRef("V")
    IN  [label |-> [n \in {"S", "V"} |-> <<"N">>],
         alternatives |->
            [n \in {"S", "V"} |->
                CASE n = "V" -> nt(never)
                  [] n = "S" -> nt(Or(Or(Mul(V, ta), tb), V))]]

\* A = nt("A", epsilon() | ta); B = nt("B", epsilon() | tb); S = nt("S", A * B)
NullableChainGrammar ==
    LET A == NonTerminalRef("A")
        B == NonTerminalRef("B")
    IN  [label |-> [n \in {"A", "B", "S"} |-> <<n>>],
         alternatives |->
            [n \in {"A", "B", "S"} |->
                CASE n = "A" -> nt(Or(epsilon, ta))
                  [] n = "B" -> nt(Or(epsilon, tb))
                  [] n = "S" -> nt(Mul(A, B))]]

\* E = nt("E", never()); T = nt("T", ta | t("(") * E * t(")"));
\* R = nt("R", epsilon()); R.add_expansion(t("+") * T * R); E.add_expansion(T * R)
ExpressionGrammar ==
    LET E == NonTerminalRef("E")
        T == NonTerminalRef("T")
        R == NonTerminalRef("R")
    IN  [label |-> [n \in {"E", "R", "T"} |-> <<n>>],
         alternatives |->
            [n \in {"E", "R", "T"} |->
                CASE n = "E" -> add_expansion(nt(never), Mul(T, R))
                  [] n = "T" -> nt(Or(ta, Mul(Mul(t("("), E), t(")"))))
                  [] n = "R" -> add_expansion(nt(epsilon), Mul(Mul(t("+"), T), R))]]

\* the grammars over two nodes S and A whose alternatives are picked, in
\* order, from three expansions each
PoolS == << <<NonTerminalRef("A"), tb>>, <<ta, NonTerminalRef("S")>>,
            <<NonTerminalRef("A"), NonTerminalRef("A")>> >>

PoolA == << <<>>, <<ta>>, <<NonTerminalRef("S")>> >>

RECURSIVE Pick(_, _, _)
Pick(pool, chosen, i) ==
    IF i > Len(pool) THEN <<>>
    ELSE (IF i \in chosen THEN <<pool[i]>> ELSE <<>>) \o Pick(pool, chosen, i + 1)

PickedGrammars ==
    {[label |-> [n \in {"A", "S"} |-> <<n>>],
      alternatives |->
         [n \in {"A", "S"} |->
             IF n = "S" THEN ExpansionAlternatives(Pick(PoolS, cS, 1))
             ELSE ExpansionAlternatives(Pick(PoolA, cA, 1))]]
     : cS \in SUBSET (1..Len(PoolS)), cA \in SUBSET (1..Len(PoolA))}

Grammars ==
    {ScenarioGrammar, NullableGrammar, SequenceGrammar, LeftRecursiveGrammar,
     MutualGrammar, NeverGrammar, NullableChainGrammar, ExpressionGrammar}
    \cup PickedGrammars

\* ------------------------------------------------------- Grammar.__init__
RECURSIVE Concat(_)
Concat(seqs) == IF seqs = <<>> THEN <<>> ELSE Head(seqs) \o Concat(Tail(seqs))

\* variant: only the first expansion of a node is scanned
SymbolsOfFirstExpansion(non_terminal) ==
    LET expansions == alternatives[non_terminal].expansions
    IN  IF expansions = <<>> THEN <<>> ELSE expansions[1]

\* the symbols the nested loops of _add_non_terminal visit, in order
SymbolsOf(non_terminal) == Concat(alternatives[non_terminal].expansions)

Frame(non_terminal) == [non_terminal |-> non_terminal, k |-> 1]

\* no Grammar object exists yet
GrammarIdle ==
    /\ starting_non_terminal = "unset"
    /\ non_terminals = {}
    /\ stack = <<>>

SolverIdle ==
    /\ order = <<>>
    /\ prev_order = <<>>
    /\ caller = "none"
    /\ first_result = <<>>
    /\ first_sets = <<>>
    /\ follow_result = <<>>
    /\ changed = FALSE
    /\ pos = 0
    /\ pass_start = <<>>
    /\ first_returns = <<>>
    /\ follow_returns = <<>>
    /\ runs = 0

\* Grammar(starting_non_terminal) up to the first call of _add_non_terminal,
\* whose guard is false on the empty set
GrammarInit ==
    /\ pc = "idle"
    /\ pnt_stack = <<>>
    /\ \E s \in DOMAIN alternatives :
          /\ starting_non_terminal' = s
          /\ non_terminals' = {s}
          /\ stack' = <<Frame(s)>>
          /\ scans' = [scans EXCEPT ![s] = @ + 1]
    /\ pc' = "discover"
    /\ UNCHANGED <<algVars, pntVars, heapVars, solverVars>>

\* one iteration of the inner loop of _add_non_terminal, with the call it makes
AddNonTerminalVisit ==
    /\ pc = "discover"
    /\ stack # <<>>
    /\ LET top == stack[Len(stack)]
           symbols == SymbolsOf(top.non_terminal)
           advanced == [stack EXCEPT ![Len(stack)].k = @ + 1]
       IN  /\ top.k <= Len(symbols)
           /\ LET symbol == symbols[top.k]
              IN  IF IsNonTerminal(symbol) /\ symbol.ref \notin non_terminals
                  THEN /\ non_terminals' = non_terminals \cup {symbol.ref}
                       /\ stack' = Append(advanced, Frame(symbol.ref))
                       /\ scans' = [scans EXCEPT ![symbol.ref] = @ + 1]
                  ELSE /\ stack' = advanced
                       /\ UNCHANGED <<non_terminals, scans>>
    /\ UNCHANGED <<algVars, pntVars, heapVars, starting_non_terminal, pc, solverVars>>

\* the loops of one call are exhausted: return to the caller
AddNonTerminalReturn ==
    /\ pc = "discover"
    /\ stack # <<>>
    /\ LET top == stack[Len(stack)]
       IN  top.k > Len(SymbolsOf(top.non_terminal))
    /\ stack' = SubSeq(stack, 1, Len(stack) - 1)
    /\ pc' = IF Len(stack) = 1 THEN "ready" ELSE "discover"
    /\ UNCHANGED <<algVars, pntVars, heapVars, starting_non_terminal, non_terminals,
                   scans, solverVars>>

\* ------------------------------------------------------------ the solvers
\* the orders in which a for loop may iterate over a Python set
Orders(S) ==
    {o \in [1..Cardinality(S) -> S] : \A i, j \in DOMAIN o : o[i] = o[j] => i = j}

\* for non_terminal in self.non_terminals:
\*     for expansion in non_terminal.alternatives.expansions:
\* the pairs the two loops visit in one pass, in order
RECURSIVE WorkList(_)
WorkList(o) ==
    IF o = <<>> THEN <<>>
    ELSE LET expansions == alternatives[Head(o)].expansions
         IN  [i \in 1..Len(expansions) |->
                 [non_terminal |-> Head(o), expansion |-> expansions[i]]]
             \o WorkList(Tail(o))

EmptySets == [n \in non_terminals |-> {}]

\* first_sets, the loop over the symbols of one expansion from symbol k on;
\* st = [result, changed], the answer adds can_be_empty.
\* first_set_of_symbol is read in the iteration that binds it, and the only
\* rebinding in between, of result[non_terminal], leaves the set it names
\* untouched, so it is modelled by its value.
RECURSIVE FirstScanSymbols(_, _, _, _)
FirstScanSymbols(st, non_terminal, expansion, k) ==
    IF k > Len(expansion)
    THEN [result |-> st.result, changed |-> st.changed, can_be_empty |-> TRUE]
    ELSE LET symbol == expansion[k]
             first_set_of_symbol ==
                 IF IsNonTerminal(symbol) THEN st.result[symbol.ref]
                 ELSE IF IsTerminal(symbol) THEN {symbol}
                 ELSE {}
             st1 == IF ~(first_set_of_symbol \subseteq st.result[non_terminal])
                    THEN [result |-> [st.result EXCEPT ![non_terminal] =
                                          @ \cup first_set_of_symbol],
                          changed |-> TRUE]
                    ELSE st
         IN  IF None \notin first_set_of_symbol
             THEN [result |-> st1.result, changed |-> st1.changed,
                   can_be_empty |-> FALSE]
             ELSE FirstScanSymbols(st1, non_terminal, expansion, k + 1)

\* variant: a change of a set is not recorded in changed
FirstExpansionNoFlag(st, non_terminal, expansion) ==
    LET r == FirstScanSymbols(st, non_terminal, expansion, 1)
    IN  IF r.can_be_empty /\ None \notin r.result[non_terminal]
        THEN [result |-> [r.result EXCEPT ![non_terminal] = @ \cup {None}],
              changed |-> st.changed]
        ELSE [result |-> r.result, changed |-> st.changed]

\* variant: the marker replaces the set instead of being added to it
FirstExpansionAssign(st, non_terminal, expansion) ==
    LET r == FirstScanSymbols(st, non_terminal, expansion, 1)
    IN  IF r.can_be_empty /\ None \notin r.result[non_terminal]
        THEN [result |-> [r.result EXCEPT ![non_terminal] = {None}],
              changed |-> TRUE]
        ELSE [result |-> r.result, changed |-> r.changed]

\* first_sets, the body of the loop over the expansions
FirstExpansion(st, non_terminal, expansion) ==
    LET r == FirstScanSymbols(st, non_terminal, expansion, 1)
    IN  IF r.can_be_empty /\ None \notin r.result[non_terminal]
        THEN [result |-> [r.result EXCEPT ![non_terminal] = @ \cup {None}],
              changed |-> TRUE]
        ELSE [result |-> r.result, changed |-> r.changed]

\* variant: the terminal is added to the trailing context
FollowTerminalUnion(st, symbol) ==
    [st EXCEPT !.current_follow_set = @ \cup {symbol}]

\* follow_sets, a Terminal met on the way from right to left
FollowTerminal(st, symbol) ==
    [st EXCEPT !.current_follow_set = {symbol}]

\* variant: the trailing context replaces FOLLOW(symbol)
FollowNonTerminalAssign(st, symbol) ==
    LET st1 == IF ~(st.current_follow_set \subseteq st.result[symbol.ref])
               THEN [st EXCEPT !.result[symbol.ref] = st.current_follow_set,
                               !.changed = TRUE]
               ELSE st
    IN  IF None \in st1.first_sets[symbol.ref]
        THEN LET copy_of_first_set == st1.first_sets[symbol.ref] \ {None}
             IN  [st1 EXCEPT !.current_follow_set = @ \cup copy_of_first_set]
        ELSE [st1 EXCEPT !.current_follow_set = st1.first_sets[symbol.ref]]

\* variant: the marker is removed from first_sets[symbol] itself, not from a
\* copy of it
FollowNonTerminalInPlace(st, symbol) ==
    LET st1 == IF ~(st.current_follow_set \subseteq st.result[symbol.ref])
               THEN [st EXCEPT !.result[symbol.ref] = @ \cup st.current_follow_set,
                               !.changed = TRUE]
               ELSE st
    IN  IF None \in st1.first_sets[symbol.ref]
        THEN LET removed == st1.first_sets[symbol.ref] \ {None}
             IN  [st1 EXCEPT !.first_sets[symbol.ref] = removed,
                             !.current_follow_set = @ \cup removed]
        ELSE [st1 EXCEPT !.current_follow_set = st1.first_sets[symbol.ref]]

\* follow_sets, a NonTerminal met on the way from right to left;
\* st = [result, first_sets, changed, current_follow_set].
\* current_follow_set may name the same set as result[non_terminal] or as
\* first_sets[symbol]; every update below builds a new set (union, set(...)),
\* so the sets it names keep their elements and it is modelled by its value.
FollowNonTerminal(st, symbol) ==
    LET st1 == IF ~(st.current_follow_set \subseteq st.result[symbol.ref])
               THEN [st EXCEPT !.result[symbol.ref] = @ \cup st.current_follow_set,
                               !.changed = TRUE]
               ELSE st
    IN  IF None \in st1.first_sets[symbol.ref]
        THEN LET copy_of_first_set == st1.first_sets[symbol.ref] \ {None}
             IN  [st1 EXCEPT !.current_follow_set = @ \cup copy_of_first_set]
        ELSE [st1 EXCEPT !.current_follow_set = st1.first_sets[symbol.ref]]

\* follow_sets, the loop over reversed(expansion) from symbol k down
RECURSIVE FollowScanSymbols(_, _, _)
FollowScanSymbols(st, expansion, k) ==
    IF k < 1 THEN st
    ELSE LET symbol == expansion[k]
             st1 == IF IsTerminal(symbol) THEN FollowTerminal(st, symbol)
                    ELSE IF IsNonTerminal(symbol) THEN FollowNonTerminal(st, symbol)
                    ELSE st
         IN  FollowScanSymbols(st1, expansion, k - 1)

\* follow_sets, the body of the loop over the expansions
FollowExpansion(st, non_terminal, expansion) ==
    FollowScanSymbols(
        [result |-> st.result, first_sets |-> st.first_sets, changed |-> st.changed,
         current_follow_set |-> st.result[non_terminal]],
        expansion, Len(expansion))

\* the user calls first_sets(): lines 93 to 98
FirstSetsCall ==
    /\ pc = "ready"
    /\ runs < MaxRuns
    /\ runs' = runs + 1
    /\ order' \in Orders(non_terminals)
    /\ prev_order' = order
    /\ caller' = "user"
    /\ first_result' = EmptySets
    /\ changed' = TRUE
    /\ pc' = "first_while"
    /\ UNCHANGED <<algVars, pntVars, heapVars, grammarVars, first_sets, follow_result,
                   pos, pass_start, first_returns, follow_returns>>

\* while changed: changed = False, and the for loops begin
FirstPass ==
    /\ pc = "first_while"
    /\ changed
    /\ changed' = FALSE
    /\ pos' = 1
    /\ pass_start' = first_result
    /\ pc' = IF WorkList(order) = <<>> THEN "first_while" ELSE "first_for"
    /\ UNCHANGED <<algVars, pntVars, heapVars, grammarVars, order, prev_order, caller, first_result,
                   first_sets, follow_result, first_returns, follow_returns, runs>>

\* one expansion of one non-terminal: lines 104 to 122
FirstScan ==
    /\ pc = "first_for"
    /\ LET work == WorkList(order)
           item == work[pos]
           r == FirstExpansion([result |-> first_result, changed |-> changed],
                               item.non_terminal, item.expansion)
       IN  /\ first_result' = r.result
           /\ changed' = r.changed
           /\ pos' = pos + 1
           /\ pc' = IF pos = Len(work) THEN "first_while" ELSE "first_for"
    /\ UNCHANGED <<algVars, pntVars, heapVars, grammarVars, order, prev_order, caller, first_sets,
                   follow_result, pass_start, first_returns, follow_returns, runs>>

\* the while loop ends and first_sets returns result, to the user or to
\* follow_sets, which goes on with changed = True (line 134)
FirstReturn ==
    /\ pc = "first_while"
    /\ ~changed
    /\ first_returns' = Append(first_returns, first_result)
    /\ first_result' = <<>>
    /\ pass_start' = <<>>
    /\ pos' = 0
    /\ IF caller = "follow"
       THEN /\ first_sets' = first_result
            /\ changed' = TRUE
            /\ pc' = "follow_while"
            /\ UNCHANGED <<order, caller>>
       ELSE /\ pc' = "ready"
            /\ caller' = "none"
            /\ UNCHANGED <<order, first_sets, changed>>
    /\ UNCHANGED <<algVars, pntVars, heapVars, grammarVars, prev_order,
                   follow_result, follow_returns, runs>>

\* the user calls follow_sets(): lines 127 to 132, into first_sets
FollowSetsCall ==
    /\ pc = "ready"
    /\ runs < MaxRuns
    /\ runs' = runs + 1
    /\ order' \in Orders(non_terminals)
    /\ prev_order' = order
    /\ follow_result' = [EmptySets EXCEPT ![starting_non_terminal] = @ \cup {None}]
    /\ caller' = "follow"
    /\ first_result' = EmptySets
    /\ changed' = TRUE
    /\ pc' = "first_while"
    /\ UNCHANGED <<algVars, pntVars, heapVars, grammarVars, first_sets, pos, pass_start,
                   first_returns, follow_returns>>

FollowPass ==
    /\ pc = "follow_while"
    /\ changed
    /\ changed' = FALSE
    /\ pos' = 1
    /\ pass_start' = follow_result
    /\ pc' = IF WorkList(order) = <<>> THEN "follow_while" ELSE "follow_for"
    /\ UNCHANGED <<algVars, pntVars, heapVars, grammarVars, order, prev_order, caller, first_result,
                   first_sets, follow_result, first_returns, follow_returns, runs>>

\* one expansion of one non-terminal: lines 140 to 154
FollowScan ==
    /\ pc = "follow_for"
    /\ LET work == WorkList(order)
           item == work[pos]
           r == FollowExpansion([result |-> follow_result, first_sets |-> first_sets,
                                 changed |-> changed],
                                item.non_terminal, item.expansion)
       IN  /\ follow_result' = r.result
           /\ first_sets' = r.first_sets
           /\ changed' = r.changed
           /\ pos' = pos + 1
           /\ pc' = IF pos = Len(work) THEN "follow_while" ELSE "follow_for"
    /\ UNCHANGED <<algVars, pntVars, heapVars, grammarVars, order, prev_order, caller, first_result,
                   pass_start, first_returns, follow_returns, runs>>

FollowReturn ==
    /\ pc = "follow_while"
    /\ ~changed
    /\ follow_returns' = Append(follow_returns, follow_result)
    /\ follow_result' = <<>>
    /\ first_sets' = <<>>
    /\ pass_start' = <<>>
    /\ pos' = 0
    /\ caller' = "none"
    /\ pc' = "ready"
    /\ UNCHANGED <<algVars, pntVars, heapVars, grammarVars, order, prev_order,
                   first_result, changed, first_returns, runs>>

\* --------------------------------------------------- parametric_nt, pnt
PntArgs == (0 - 1)..MaxArg

PntIdle ==
    /\ cache = <<>>
    /\ pnt_stack = <<>>
    /\ builder_runs = [x \in PntArgs |-> 0]
    /\ returned = [x \in PntArgs |-> {}]
    /\ pnt_calls = <<>>
    /\ allocated = 0

\* variant: no value is ever found in the cache
CacheHitNever(c, x) == FALSE

\* functools.cache: is there a cached value for this argument?
CacheHit(c, x) == x \in DOMAIN c

\* the identity of the next object NonTerminal(...) creates
NewNode == "o" \o ToString(allocated + 1)

\* the wrapper result of parametric_nt: the label of an unlabelled node is
\* f.__name__, followed by the arguments in parentheses
PntLabel(x) == <<"pnt" \o "(" \o ToString(x) \o ")">>

\* the user calls pnt(x): a cached node is returned, or the builder starts
PntCall ==
    /\ pc = "idle"
    /\ pnt_stack = <<>>
    /\ Len(pnt_calls) < MaxCalls
    /\ \E x \in PntArgs :
          /\ pnt_calls' = Append(pnt_calls, x)
          /\ IF CacheHit(cache, x)
             THEN /\ returned' = [returned EXCEPT ![x] = @ \cup {cache[x]}]
                  /\ UNCHANGED <<pnt_stack, builder_runs>>
             ELSE /\ pnt_stack' = <<x>>
                  /\ builder_runs' = [builder_runs EXCEPT ![x] = @ + 1]
                  /\ UNCHANGED returned
    /\ UNCHANGED <<algVars, heapVars, grammarVars, pc, solverVars, cache, allocated>>

\* the builder of pnt(x), x > 0, calls pnt(x - 1), which is not cached
PntRecurse ==
    /\ pnt_stack # <<>>
    /\ LET x == pnt_stack[Len(pnt_stack)]
       IN  /\ ~(x <= 0)
           /\ ~CacheHit(cache, x - 1)
           /\ pnt_stack' = Append(pnt_stack, x - 1)
           /\ builder_runs' = [builder_runs EXCEPT ![x - 1] = @ + 1]
    /\ UNCHANGED <<algVars, heapVars, grammarVars, pc, solverVars, cache,
                   returned, pnt_calls, allocated>>

\* the builder of pnt(x) creates its node (with the cached pnt(x - 1) when
\* x > 0), the wrapper labels it, the cache stores it, and the call returns
PntFinish ==
    /\ pnt_stack # <<>>
    /\ LET x == pnt_stack[Len(pnt_stack)]
           node == NewNode
       IN  /\ (x <= 0) \/ CacheHit(cache, x - 1)
           /\ alternatives' = alternatives @@
                 (node :> IF x <= 0 THEN nt(t("a"))
                          ELSE nt(Mul(NonTerminalRef(cache[x - 1]), t("x"))))
           /\ label' = label @@ (node :> PntLabel(x))
           /\ scans' = scans @@ (node :> 0)
           /\ allocated' = allocated + 1
           /\ cache' = cache @@ (x :> node)
           /\ returned' = IF x <= 0
                          THEN [returned EXCEPT ![x] = @ \cup {node}]
                          ELSE [returned EXCEPT ![x] = @ \cup {node},
                                                ![x - 1] = @ \cup {cache[x - 1]}]
           /\ pnt_stack' = SubSeq(pnt_stack, 1, Len(pnt_stack) - 1)
    /\ UNCHANGED <<algVars, starting_non_terminal, non_terminals, stack, pc,
                   solverVars, builder_runs, pnt_calls>>

\* ------------------------------------------------------- specifications
Init ==
    /\ AlgIdle
    /\ \E g \in Grammars :
          /\ label = g.label
          /\ alternatives = g.alternatives
    /\ GrammarIdle
    /\ scans = [n \in DOMAIN alternatives |-> 0]
    /\ pc = "idle"
    /\ SolverIdle
    /\ PntIdle

SolverStep ==
    \/ FirstPass
    \/ FirstScan
    \/ FirstReturn
    \/ FollowPass
    \/ FollowScan
    \/ FollowReturn

Next ==
    \/ GrammarInit
    \/ AddNonTerminalVisit
    \/ AddNonTerminalReturn
    \/ FirstSetsCall
    \/ FollowSetsCall
    \/ FirstPass
    \/ FirstScan
    \/ FirstReturn
    \/ FollowPass
    \/ FollowScan
    \/ FollowReturn

Spec == Init /\ [][Next]_vars

\* the first solver call on a new Grammar
FirstSetsFirstCall == runs = 0 /\ FirstSetsCall

FollowSetsFirstCall == runs = 0 /\ FollowSetsCall

NextFair ==
    \/ GrammarInit
    \/ AddNonTerminalVisit
    \/ AddNonTerminalReturn
    \/ FirstSetsFirstCall
    \/ FollowSetsFirstCall
    \/ FirstPass
    \/ FirstScan
    \/ FirstReturn
    \/ FollowPass
    \/ FollowScan
    \/ FollowReturn

\* the code is synchronous and single-threaded: a constructor or solver that
\* has been called keeps running until it returns.  The behaviours are those
\* of a Grammar on which one solver is called.
SpecFair ==
    /\ Init
    /\ [][NextFair]_vars
    /\ WF_vars(AddNonTerminalVisit \/ AddNonTerminalReturn)
    /\ WF_vars(SolverStep)

AlgNext == RightDistribute \/ LeftDistribute

AlgSpecInit ==
    /\ AlgInit
    /\ label = <<>>
    /\ alternatives = <<>>
    /\ GrammarIdle
    /\ scans = <<>>
    /\ pc = "idle"
    /\ SolverIdle
    /\ PntIdle

SpecAlg == AlgSpecInit /\ [][AlgNext]_vars

PntInit ==
    /\ AlgIdle
    /\ label = <<>>
    /\ alternatives = <<>>
    /\ GrammarIdle
    /\ scans = <<>>
    /\ pc = "idle"
    /\ SolverIdle
    /\ PntIdle

PntNext ==
    \/ PntCall
    \/ PntRecurse
    \/ PntFinish
    \/ GrammarInit
    \/ AddNonTerminalVisit
    \/ AddNonTerminalReturn

SpecPnt == PntInit /\ [][PntNext]_vars

\* ------------------------------------------- reference notions of the claims
Terminals(xs) == {t(x) : x \in xs}

InFirstLoop == pc \in {"first_while", "first_for"}

InFollowLoop == pc \in {"follow_while", "follow_for"}

InSolver == InFirstLoop \/ InFollowLoop

RefExpansions(n) == Range(alternatives[n].expansions)

\* the symbols that occur in the expansions of n
RefSymbols(n) == UNION {Range(e) : e \in RefExpansions(n)}

\* the non-terminals reachable from the set S through non-terminal terms
RECURSIVE RefReachable(_)
RefReachable(S) ==
    LET more == S \cup {m \in DOMAIN alternatives :
                          \E n \in S : NonTerminalRef(m) \in RefSymbols(n)}
    IN  IF more = S THEN S ELSE RefReachable(more)

\* the non-terminals that derive the empty word
RECURSIVE RefNullable(_)
RefNullable(S) ==
    LET more == S \cup {n \in non_terminals :
                          \E e \in RefExpansions(n) :
                             \A k \in DOMAIN e : IsNonTerminal(e[k]) /\ e[k].ref \in S}
    IN  IF more = S THEN S ELSE RefNullable(more)

RefIsNullable(symbol) == IsNonTerminal(symbol) /\ symbol.ref \in RefNullable({})

\* the terminals that can begin a word derived from the sequence of symbols e
\* from position k on, given the terminals F[n] that can begin each n
RECURSIVE RefFirstOfSeq(_, _, _)
RefFirstOfSeq(F, e, k) ==
    IF k > Len(e) THEN {}
    ELSE IF IsTerminal(e[k]) THEN {e[k]}
    ELSE F[e[k].ref] \cup (IF RefIsNullable(e[k]) THEN RefFirstOfSeq(F, e, k + 1) ELSE {})

RECURSIVE RefFirst(_)
RefFirst(F) ==
    LET more == [n \in non_terminals |->
                    F[n] \cup UNION {RefFirstOfSeq(F, e, 1) : e \in RefExpansions(n)}]
    IN  IF more = F THEN F ELSE RefFirst(more)

\* can the symbols of e from position k on all vanish?
RefSuffixNullable(e, k) == \A j \in k..Len(e) : RefIsNullable(e[j])

\* the least FOLLOW sets: the end marker at the start symbol, after each
\* occurrence of n what can begin the rest of the expansion, and what follows
\* the expanded non-terminal when the rest can vanish
RefFollowFrom(F, W, n, m, e) ==
    UNION {IF IsNonTerminal(e[k]) /\ e[k].ref = n
           THEN RefFirstOfSeq(F, e, k + 1) \cup
                (IF RefSuffixNullable(e, k + 1) THEN W[m] ELSE {})
           ELSE {}
          : k \in DOMAIN e}

RECURSIVE RefFollow(_)
RefFollow(W) ==
    LET F == RefFirst(EmptySets)
        more == [n \in non_terminals |->
                    W[n] \cup UNION {UNION {RefFollowFrom(F, W, n, m, e)
                                           : e \in RefExpansions(m)}
                                    : m \in non_terminals}]
    IN  IF more = W THEN W ELSE RefFollow(more)

RefFollowSets ==
    RefFollow([EmptySets EXCEPT ![starting_non_terminal] = {None}])

\* ------------------------------------------------------------------ C8
SeqToBag(s) == [e \in Range(s) |-> Cardinality({i \in DOMAIN s : s[i] = e})]

\* a bare symbol stands for the one expansion made of that symbol
ExpansionsOf(v) == IF IsSymbol(v) THEN << <<v>> >> ELSE v.expansions

\* C8: concatenation distributes over union on both sides: (X | Y) * Z and
\* (X * Z) | (Y * Z) have the same multiset of term sequences, as have
\* Z * (X | Y) and (Z * X) | (Z * Y), and every sequence is a left operand's
\* sequence followed by a right operand's sequence, in that order.
C8_Distributive ==
    /\ alg_pc \in {"right", "left"} =>
          SeqToBag(lhs.expansions) = SeqToBag(rhs.expansions)
    /\ alg_pc = "right" =>
          SeqToBag(lhs.expansions) =
             SeqToBag(CrossProduct(ExpansionsOf(X) \o ExpansionsOf(Y), ExpansionsOf(Z)))
    /\ alg_pc = "left" =>
          SeqToBag(lhs.expansions) =
             SeqToBag(CrossProduct(ExpansionsOf(Z), ExpansionsOf(X) \o ExpansionsOf(Y)))

C8_Witness ==
    /\ alg_pc = "left"
    /\ IsSymbol(X)
    /\ ~IsSymbol(Y) /\ Len(Y.expansions) = 2
    /\ ~IsSymbol(Z) /\ Len(Z.expansions) = 2
    /\ Z.expansions[1] # Z.expansions[2]
    /\ lhs.expansions # rhs.expansions

\* ------------------------------------------------------------------ C7
\* C7: the builder of pnt runs at most once for each argument, all calls
\* with the same argument (the user's and the builder's own) return the same
\* node, different arguments have different nodes, and the discovery from
\* pnt(n), n >= 0, ends with exactly the n + 1 nodes pnt(0), ..., pnt(n).
C7_Memoized ==
    /\ \A x \in PntArgs : builder_runs[x] <= 1
    /\ \A x \in PntArgs : returned[x] \subseteq {cache[y] : y \in DOMAIN cache \cap {x}}
    /\ \A x, y \in DOMAIN cache : cache[x] = cache[y] => x = y
    /\ \A n \in DOMAIN cache :
          (pc = "ready" /\ n >= 0 /\ starting_non_terminal = cache[n]) =>
              /\ \A k \in 0..n : k \in DOMAIN cache
              /\ non_terminals = {cache[k] : k \in 0..n}
              /\ Cardinality(non_terminals) = n + 1

C7_Witness ==
    /\ pc = "ready"
    /\ pnt_calls = <<3, 2, 3>>
    /\ builder_runs[3] = 1
    /\ starting_non_terminal = cache[3]
    /\ Cardinality(non_terminals) = 4

\* ------------------------------------------------------------------ C1
\* C1: in every result of first_sets, FIRST(N) holds the nullable marker only
\* if some expansion of N is empty or made only of non-terminals whose FIRST
\* sets hold the marker; for E -> epsilon | "x" and F -> E "y", FIRST(E) holds
\* the marker and "x", FIRST(F) holds "y" and not the marker.
C1_NullableMarker ==
    \A i \in DOMAIN first_returns :
        LET F == first_returns[i]
        IN  /\ \A n \in non_terminals :
                  None \in F[n] =>
                      \E e \in RefExpansions(n) :
                          \A k \in DOMAIN e :
                              IsNonTerminal(e[k]) /\ None \in F[e[k].ref]
            /\ (alternatives = NullableGrammar.alternatives
                    /\ starting_non_terminal = "F") =>
                  /\ {None, t("x")} \subseteq F["E"]
                  /\ t("y") \in F["F"]
                  /\ None \notin F["F"]

\* ------------------------------------------------------------------ C2
\* C2: every result of follow_sets is the least one: FOLLOW(N) holds only the
\* terminals that can follow N in a derivation from the start symbol, and the
\* end marker only if N can end such a derivation.
C2_FollowMinimal ==
    \A i \in DOMAIN follow_returns :
        \A n \in non_terminals : follow_returns[i][n] \subseteq RefFollowSets[n]

\* ------------------------------------------------------------------ C3
\* C3: for the grammar A -> "a", B -> "b", D -> (A|B)(A|B),
\* C -> A | A B | D "b" with start C, every result of first_sets is
\* FIRST(A) = {"a"}, FIRST(B) = {"b"}, FIRST(D) = FIRST(C) = {"a", "b"}, and
\* in every result of follow_sets FOLLOW(A) holds the end marker, "a" and
\* "b", and FOLLOW(D) is {"b"}, whatever the iteration order.
C3_Scenario ==
    (alternatives = ScenarioGrammar.alternatives /\ starting_non_terminal = "c") =>
        /\ \A i \in DOMAIN first_returns :
              /\ first_returns[i]["a"] = Terminals({"a"})
              /\ first_returns[i]["b"] = Terminals({"b"})
              /\ first_returns[i]["d"] = Terminals({"a", "b"})
              /\ first_returns[i]["c"] = Terminals({"a", "b"})
        /\ \A i \in DOMAIN follow_returns :
              /\ ({None} \cup Terminals({"a", "b"})) \subseteq follow_returns[i]["a"]
              /\ follow_returns[i]["d"] = Terminals({"b"})

C3_Witness ==
    /\ alternatives = ScenarioGrammar.alternatives
    /\ starting_non_terminal = "c"
    /\ pc = "ready"
    /\ Len(follow_returns) = 1
    /\ Len(first_returns) = 2
    /\ order # prev_order

\* ------------------------------------------------------------------ C4
\* C4: the construction of a Grammar never scans the alternatives of a node
\* twice nor adds a node that is not reachable from the start, it ends, and
\* from then on non_terminals is exactly the set of nodes reachable from the
\* start, each scanned exactly once and no other node scanned.
C4_ReachableInv ==
    /\ \A n \in DOMAIN scans : scans[n] = IF n \in non_terminals THEN 1 ELSE 0
    /\ pc # "idle" => non_terminals \subseteq RefReachable({starting_non_terminal})
    /\ pc \notin {"idle", "discover"} =>
          non_terminals = RefReachable({starting_non_terminal})

C4_Reachable == ([]C4_ReachableInv) /\ ((pc = "discover") ~> (pc = "ready"))

C4_Witness ==
    /\ pc = "ready"
    /\ alternatives = MutualGrammar.alternatives
    /\ starting_non_terminal = "X"
    /\ non_terminals = {"X", "Y"}
    /\ scans["U"] = 0

\* ------------------------------------------------------------------ C5
\* C5: from the seeding on, through every pass of follow_sets and in its
\* result, the FOLLOW set of the start non-terminal holds the end marker.
C5_StartHasEndMarker ==
    /\ ((InFirstLoop /\ caller = "follow") \/ InFollowLoop) =>
          None \in follow_result[starting_non_terminal]
    /\ \A i \in DOMAIN follow_returns :
          None \in follow_returns[i][starting_non_terminal]

C5_Witness ==
    /\ pc = "follow_while"
    /\ ~changed
    /\ NonTerminalRef(starting_non_terminal) \in RefSymbols(starting_non_terminal)
    /\ Cardinality(follow_result[starting_non_terminal]) >= 2

\* ------------------------------------------------------------------ C6
\* what one expansion e contributes from position k on, given the sets F:
\* the set of each term up to the first one without the marker, and the
\* marker when there is no such term
RECURSIVE RefScan(_, _, _)
RefScan(F, e, k) ==
    IF k > Len(e) THEN {None}
    ELSE LET fs == IF IsNonTerminal(e[k]) THEN F[e[k].ref] ELSE {e[k]}
         IN  fs \cup (IF None \in fs THEN RefScan(F, e, k + 1) ELSE {})

\* the least sets closed under the contributions of all expansions; the
\* expansions of a node are taken as a set, the nodes in no order
RECURSIVE RefLeastSets(_)
RefLeastSets(F) ==
    LET more == [n \in non_terminals |->
                    F[n] \cup UNION {RefScan(F, e, 1) : e \in RefExpansions(n)}]
    IN  IF more = F THEN F ELSE RefLeastSets(more)

\* C6: all runs of first_sets on the same graph return the same mapping,
\* whatever the orders in which the runs iterate over the non-terminals, and
\* this mapping is one that no order of the non-terminals or of their
\* expansions enters: the least sets closed under the scan of every expansion.
C6_Deterministic ==
    /\ \A i, j \in DOMAIN first_returns : first_returns[i] = first_returns[j]
    /\ pc = "ready" =>
          \A i \in DOMAIN first_returns : first_returns[i] = RefLeastSets(EmptySets)

C6_Witness ==
    /\ pc = "ready"
    /\ Len(first_returns) = 2
    /\ follow_returns = <<>>
    /\ Cardinality(non_terminals) >= 3
    /\ order # prev_order
    /\ \E n \in non_terminals : None \in first_returns[1][n]

\* ------------------------------------------------------------------ C9
\* C9: while a solver runs no step removes an element from a set, the sets
\* stay within the terminals of the grammar and the marker, changed is true
\* at the end of a pass exactly if the pass changed a set, the solver
\* returns at the end of the first pass that changed nothing and not before,
\* and every solver that was called returns.
RefGrammarTerminals ==
    {s \in UNION {RefSymbols(n) : n \in non_terminals} : IsTerminal(s)}

C9_Within ==
    /\ InFirstLoop =>
          \A n \in non_terminals : first_result[n] \subseteq RefGrammarTerminals \cup {None}
    /\ InFollowLoop =>
          \A n \in non_terminals : follow_result[n] \subseteq RefGrammarTerminals \cup {None}
    /\ (pc = "first_while" /\ pos > 0) => (changed <=> first_result # pass_start)
    /\ (pc = "follow_while" /\ pos > 0) => (changed <=> follow_result # pass_start)

C9_Step ==
    /\ (InFirstLoop /\ pc' \in {"first_while", "first_for"}) =>
          \A n \in non_terminals : first_result[n] \subseteq first_result'[n]
    /\ (InFollowLoop /\ pc' \in {"follow_while", "follow_for"}) =>
          \A n \in non_terminals : follow_result[n] \subseteq follow_result'[n]
    /\ (pc = "first_while" /\ pos > 0) =>
          (first_result = pass_start <=> pc' \notin {"first_while", "first_for"})
    /\ (pc = "follow_while" /\ pos > 0) =>
          (follow_result = pass_start <=> pc' \notin {"follow_while", "follow_for"})

C9_Terminates == ([]C9_Within) /\ [][C9_Step]_vars /\ (InSolver ~> (pc = "ready"))

C9_Witness ==
    /\ pc = "follow_while"
    /\ ~changed
    /\ pos > 0
    /\ follow_result = pass_start
    /\ Len(WorkList(order)) >= 4
    /\ \E n \in non_terminals : Cardinality(follow_result[n]) >= 3

\* ----------------------------------------------------------------- C10
\* C10: no step of first_sets or follow_sets changes the start non-terminal,
\* the discovered set, or the label or alternatives of a node, and while
\* follow_sets runs its loop the FIRST sets stay what first_sets returned.
C10_Frame ==
    /\ InSolver =>
          /\ starting_non_terminal' = starting_non_terminal
          /\ non_terminals' = non_terminals
          /\ label' = label
          /\ alternatives' = alternatives
    /\ (InFollowLoop /\ pc' \in {"follow_while", "follow_for"}) =>
          /\ first_sets' = first_sets
          /\ first_sets = first_returns[Len(first_returns)]

C10_SolversReadOnly == [][C10_Frame]_vars

C10_Witness ==
    /\ pc = "follow_while"
    /\ ~changed
    /\ pos > 0
    /\ \E n \in non_terminals :
          /\ None \in first_sets[n]
          /\ \E m \in non_terminals : NonTerminalRef(n) \in RefSymbols(m)

====
